---- MODULE Spec2Model ----
(***************************************************************************)
(* Election tallies (a0/electiontester.py): class Election with its single *)
(* mutator update_results, and class Jurisdiction with read_results, which *)
(* parses a line-oriented csv stream and forwards every record to the      *)
(* Election stored for a date.                                             *)
(*                                                                         *)
(* A Python str is modelled as the sequence of its characters, each        *)
(* character a one-character string; a text stream is the sequence of the  *)
(* strings readline() returns before it returns ''.  A dict is a function  *)
(* whose DOMAIN is the set of its keys, a list is a sequence, a date is    *)
(* the triple <<year, month, day>>.  A character outside ASCII is written  *)
(* by its code point, "U+0663" for ARABIC-INDIC DIGIT THREE.               *)
(*                                                                         *)
(* SpecE is the Jurisdiction whose Elections are changed by update_results *)
(* calls, SpecJ the one whose Elections are changed by read_results calls. *)
(***************************************************************************)
EXTENDS Integers, Sequences, FiniteSets

(***************************************************************************)
(* Bounds of the model.                                                    *)
(***************************************************************************)
\* largest number of votes recorded in all Elections together (guard of the
\* actions)
MaxTotal == 5
\* largest votes argument of a direct update_results call
MaxVote == 2
\* largest number of data lines after the header of a stream
MaxLines == 2

(***************************************************************************)
(* Module constants, lines 8-10.                                           *)
(***************************************************************************)
RIDING == 1
PARTY == 13
VOTES == 17

(***************************************************************************)
(* str helpers                                                             *)
(***************************************************************************)
QUOTE == "\""
NL == "\n"
\* the characters int() ignores around a number
Whitespace ==
    {"\t", "\n", "", "\f", "\r", " ", "U+0085", "U+00A0", "U+1680",
     "U+2000", "U+2001", "U+2002", "U+2003", "U+2004", "U+2005", "U+2006",
     "U+2007", "U+2008", "U+2009", "U+200A", "U+2028", "U+2029", "U+202F",
     "U+205F", "U+3000"}

\* the decimal digits int() accepts, one row per script, each in the order
\* of the values 0..9
DecimalDigits ==
    <<
       <<"0", "1", "2", "3", "4",
         "5", "6", "7", "8", "9">>,
       <<"U+0660", "U+0661", "U+0662", "U+0663", "U+0664",
         "U+0665", "U+0666", "U+0667", "U+0668", "U+0669">>,
       <<"U+06F0", "U+06F1", "U+06F2", "U+06F3", "U+06F4",
         "U+06F5", "U+06F6", "U+06F7", "U+06F8", "U+06F9">>,
       <<"U+07C0", "U+07C1", "U+07C2", "U+07C3", "U+07C4",
         "U+07C5", "U+07C6", "U+07C7", "U+07C8", "U+07C9">>,
       <<"U+0966", "U+0967", "U+0968", "U+0969", "U+096A",
         "U+096B", "U+096C", "U+096D", "U+096E", "U+096F">>,
       <<"U+09E6", "U+09E7", "U+09E8", "U+09E9", "U+09EA",
         "U+09EB", "U+09EC", "U+09ED", "U+09EE", "U+09EF">>,
       <<"U+0A66", "U+0A67", "U+0A68", "U+0A69", "U+0A6A",
         "U+0A6B", "U+0A6C", "U+0A6D", "U+0A6E", "U+0A6F">>,
       <<"U+0AE6", "U+0AE7", "U+0AE8", "U+0AE9", "U+0AEA",
         "U+0AEB", "U+0AEC", "U+0AED", "U+0AEE", "U+0AEF">>,
       <<"U+0B66", "U+0B67", "U+0B68", "U+0B69", "U+0B6A",
         "U+0B6B", "U+0B6C", "U+0B6D", "U+0B6E", "U+0B6F">>,
       <<"U+0BE6", "U+0BE7", "U+0BE8", "U+0BE9", "U+0BEA",
         "U+0BEB", "U+0BEC", "U+0BED", "U+0BEE", "U+0BEF">>,
       <<"U+0C66", "U+0C67", "U+0C68", "U+0C69", "U+0C6A",
         "U+0C6B", "U+0C6C", "U+0C6D", "U+0C6E", "U+0C6F">>,
       <<"U+0CE6", "U+0CE7", "U+0CE8", "U+0CE9", "U+0CEA",
         "U+0CEB", "U+0CEC", "U+0CED", "U+0CEE", "U+0CEF">>,
       <<"U+0D66", "U+0D67", "U+0D68", "U+0D69", "U+0D6A",
         "U+0D6B", "U+0D6C", "U+0D6D", "U+0D6E", "U+0D6F">>,
       <<"U+0DE6", "U+0DE7", "U+0DE8", "U+0DE9", "U+0DEA",
         "U+0DEB", "U+0DEC", "U+0DED", "U+0DEE", "U+0DEF">>,
       <<"U+0E50", "U+0E51", "U+0E52", "U+0E53", "U+0E54",
         "U+0E55", "U+0E56", "U+0E57", "U+0E58", "U+0E59">>,
       <<"U+0ED0", "U+0ED1", "U+0ED2", "U+0ED3", "U+0ED4",
         "U+0ED5", "U+0ED6", "U+0ED7", "U+0ED8", "U+0ED9">>,
       <<"U+0F20", "U+0F21", "U+0F22", "U+0F23", "U+0F24",
         "U+0F25", "U+0F26", "U+0F27", "U+0F28", "U+0F29">>,
       <<"U+1040", "U+1041", "U+1042", "U+1043", "U+1044",
         "U+1045", "U+1046", "U+1047", "U+1048", "U+1049">>,
       <<"U+1090", "U+1091", "U+1092", "U+1093", "U+1094",
         "U+1095", "U+1096", "U+1097", "U+1098", "U+1099">>,
       <<"U+17E0", "U+17E1", "U+17E2", "U+17E3", "U+17E4",
         "U+17E5", "U+17E6", "U+17E7", "U+17E8", "U+17E9">>,
       <<"U+1810", "U+1811", "U+1812", "U+1813", "U+1814",
         "U+1815", "U+1816", "U+1817", "U+1818", "U+1819">>,
       <<"U+1946", "U+1947", "U+1948", "U+1949", "U+194A",
         "U+194B", "U+194C", "U+194D", "U+194E", "U+194F">>,
       <<"U+19D0", "U+19D1", "U+19D2", "U+19D3", "U+19D4",
         "U+19D5", "U+19D6", "U+19D7", "U+19D8", "U+19D9">>,
       <<"U+1A80", "U+1A81", "U+1A82", "U+1A83", "U+1A84",
         "U+1A85", "U+1A86", "U+1A87", "U+1A88", "U+1A89">>,
       <<"U+1A90", "U+1A91", "U+1A92", "U+1A93", "U+1A94",
         "U+1A95", "U+1A96", "U+1A97", "U+1A98", "U+1A99">>,
       <<"U+1B50", "U+1B51", "U+1B52", "U+1B53", "U+1B54",
         "U+1B55", "U+1B56", "U+1B57", "U+1B58", "U+1B59">>,
       <<"U+1BB0", "U+1BB1", "U+1BB2", "U+1BB3", "U+1BB4",
         "U+1BB5", "U+1BB6", "U+1BB7", "U+1BB8", "U+1BB9">>,
       <<"U+1C40", "U+1C41", "U+1C42", "U+1C43", "U+1C44",
         "U+1C45", "U+1C46", "U+1C47", "U+1C48", "U+1C49">>,
       <<"U+1C50", "U+1C51", "U+1C52", "U+1C53", "U+1C54",
         "U+1C55", "U+1C56", "U+1C57", "U+1C58", "U+1C59">>,
       <<"U+A620", "U+A621", "U+A622", "U+A623", "U+A624",
         "U+A625", "U+A626", "U+A627", "U+A628", "U+A629">>,
       <<"U+A8D0", "U+A8D1", "U+A8D2", "U+A8D3", "U+A8D4",
         "U+A8D5", "U+A8D6", "U+A8D7", "U+A8D8", "U+A8D9">>,
       <<"U+A900", "U+A901", "U+A902", "U+A903", "U+A904",
         "U+A905", "U+A906", "U+A907", "U+A908", "U+A909">>,
       <<"U+A9D0", "U+A9D1", "U+A9D2", "U+A9D3", "U+A9D4",
         "U+A9D5", "U+A9D6", "U+A9D7", "U+A9D8", "U+A9D9">>,
       <<"U+A9F0", "U+A9F1", "U+A9F2", "U+A9F3", "U+A9F4",
         "U+A9F5", "U+A9F6", "U+A9F7", "U+A9F8", "U+A9F9">>,
       <<"U+AA50", "U+AA51", "U+AA52", "U+AA53", "U+AA54",
         "U+AA55", "U+AA56", "U+AA57", "U+AA58", "U+AA59">>,
       <<"U+ABF0", "U+ABF1", "U+ABF2", "U+ABF3", "U+ABF4",
         "U+ABF5", "U+ABF6", "U+ABF7", "U+ABF8", "U+ABF9">>,
       <<"U+FF10", "U+FF11", "U+FF12", "U+FF13", "U+FF14",
         "U+FF15", "U+FF16", "U+FF17", "U+FF18", "U+FF19">>,
       <<"U+104A0", "U+104A1", "U+104A2", "U+104A3", "U+104A4",
         "U+104A5", "U+104A6", "U+104A7", "U+104A8", "U+104A9">>,
       <<"U+10D30", "U+10D31", "U+10D32", "U+10D33", "U+10D34",
         "U+10D35", "U+10D36", "U+10D37", "U+10D38", "U+10D39">>,
       <<"U+11066", "U+11067", "U+11068", "U+11069", "U+1106A",
         "U+1106B", "U+1106C", "U+1106D", "U+1106E", "U+1106F">>,
       <<"U+110F0", "U+110F1", "U+110F2", "U+110F3", "U+110F4",
         "U+110F5", "U+110F6", "U+110F7", "U+110F8", "U+110F9">>,
       <<"U+11136", "U+11137", "U+11138", "U+11139", "U+1113A",
         "U+1113B", "U+1113C", "U+1113D", "U+1113E", "U+1113F">>,
       <<"U+111D0", "U+111D1", "U+111D2", "U+111D3", "U+111D4",
         "U+111D5", "U+111D6", "U+111D7", "U+111D8", "U+111D9">>,
       <<"U+112F0", "U+112F1", "U+112F2", "U+112F3", "U+112F4",
         "U+112F5", "U+112F6", "U+112F7", "U+112F8", "U+112F9">>,
       <<"U+11450", "U+11451", "U+11452", "U+11453", "U+11454",
         "U+11455", "U+11456", "U+11457", "U+11458", "U+11459">>,
       <<"U+114D0", "U+114D1", "U+114D2", "U+114D3", "U+114D4",
         "U+114D5", "U+114D6", "U+114D7", "U+114D8", "U+114D9">>,
       <<"U+11650", "U+11651", "U+11652", "U+11653", "U+11654",
         "U+11655", "U+11656", "U+11657", "U+11658", "U+11659">>,
       <<"U+116C0", "U+116C1", "U+116C2", "U+116C3", "U+116C4",
         "U+116C5", "U+116C6", "U+116C7", "U+116C8", "U+116C9">>,
       <<"U+11730", "U+11731", "U+11732", "U+11733", "U+11734",
         "U+11735", "U+11736", "U+11737", "U+11738", "U+11739">>,
       <<"U+118E0", "U+118E1", "U+118E2", "U+118E3", "U+118E4",
         "U+118E5", "U+118E6", "U+118E7", "U+118E8", "U+118E9">>,
       <<"U+11950", "U+11951", "U+11952", "U+11953", "U+11954",
         "U+11955", "U+11956", "U+11957", "U+11958", "U+11959">>,
       <<"U+11C50", "U+11C51", "U+11C52", "U+11C53", "U+11C54",
         "U+11C55", "U+11C56", "U+11C57", "U+11C58", "U+11C59">>,
       <<"U+11D50", "U+11D51", "U+11D52", "U+11D53", "U+11D54",
         "U+11D55", "U+11D56", "U+11D57", "U+11D58", "U+11D59">>,
       <<"U+11DA0", "U+11DA1", "U+11DA2", "U+11DA3", "U+11DA4",
         "U+11DA5", "U+11DA6", "U+11DA7", "U+11DA8", "U+11DA9">>,
       <<"U+16A60", "U+16A61", "U+16A62", "U+16A63", "U+16A64",
         "U+16A65", "U+16A66", "U+16A67", "U+16A68", "U+16A69">>,
       <<"U+16AC0", "U+16AC1", "U+16AC2", "U+16AC3", "U+16AC4",
         "U+16AC5", "U+16AC6", "U+16AC7", "U+16AC8", "U+16AC9">>,
       <<"U+16B50", "U+16B51", "U+16B52", "U+16B53", "U+16B54",
         "U+16B55", "U+16B56", "U+16B57", "U+16B58", "U+16B59">>,
       <<"U+1D7CE", "U+1D7CF", "U+1D7D0", "U+1D7D1", "U+1D7D2",
         "U+1D7D3", "U+1D7D4", "U+1D7D5", "U+1D7D6", "U+1D7D7">>,
       <<"U+1D7D8", "U+1D7D9", "U+1D7DA", "U+1D7DB", "U+1D7DC",
         "U+1D7DD", "U+1D7DE", "U+1D7DF", "U+1D7E0", "U+1D7E1">>,
       <<"U+1D7E2", "U+1D7E3", "U+1D7E4", "U+1D7E5", "U+1D7E6",
         "U+1D7E7", "U+1D7E8", "U+1D7E9", "U+1D7EA", "U+1D7EB">>,
       <<"U+1D7EC", "U+1D7ED", "U+1D7EE", "U+1D7EF", "U+1D7F0",
         "U+1D7F1", "U+1D7F2", "U+1D7F3", "U+1D7F4", "U+1D7F5">>,
       <<"U+1D7F6", "U+1D7F7", "U+1D7F8", "U+1D7F9", "U+1D7FA",
         "U+1D7FB", "U+1D7FC", "U+1D7FD", "U+1D7FE", "U+1D7FF">>,
       <<"U+1E140", "U+1E141", "U+1E142", "U+1E143", "U+1E144",
         "U+1E145", "U+1E146", "U+1E147", "U+1E148", "U+1E149">>,
       <<"U+1E2F0", "U+1E2F1", "U+1E2F2", "U+1E2F3", "U+1E2F4",
         "U+1E2F5", "U+1E2F6", "U+1E2F7", "U+1E2F8", "U+1E2F9">>,
       <<"U+1E950", "U+1E951", "U+1E952", "U+1E953", "U+1E954",
         "U+1E955", "U+1E956", "U+1E957", "U+1E958", "U+1E959">>,
       <<"U+1FBF0", "U+1FBF1", "U+1FBF2", "U+1FBF3", "U+1FBF4",
         "U+1FBF5", "U+1FBF6", "U+1FBF7", "U+1FBF8", "U+1FBF9">>
    >>

Digits ==
    {DecimalDigits[i][j] : i \in DOMAIN DecimalDigits, j \in 1..10}

\* the value of a decimal digit
DigitValues ==
    [c \in Digits |->
        (CHOOSE j \in 1..10 :
            \E i \in DOMAIN DecimalDigits : DecimalDigits[i][j] = c) - 1]

DigitVal(c) == DigitValues[c]

\* str.lstrip(chars)
RECURSIVE lstrip(_, _)
lstrip(s, chars) ==
    IF s # <<>> /\ Head(s) \in chars THEN lstrip(Tail(s), chars) ELSE s

\* str.rstrip(chars)
RECURSIVE rstrip(_, _)
rstrip(s, chars) ==
    IF s # <<>> /\ s[Len(s)] \in chars
    THEN rstrip(SubSeq(s, 1, Len(s) - 1), chars)
    ELSE s

\* str.strip(chars): leading and trailing characters of chars removed
strip(s, chars) == rstrip(lstrip(s, chars), chars)

\* str.split(sep) for a one-character sep: n separators give n + 1 fields,
\* and ''.split(',') is ['']
RECURSIVE splitFrom(_, _, _)
splitFrom(s, sep, cur) ==
    IF s = <<>> THEN <<cur>>
    ELSE IF Head(s) = sep THEN <<cur>> \o splitFrom(Tail(s), sep, <<>>)
    ELSE splitFrom(Tail(s), sep, Append(cur, Head(s)))

split(s, sep) == splitFrom(s, sep, <<>>)

\* the longest digit string int() converts, sys.int_info.default_max_str_digits
default_max_str_digits == 4300

\* digits, with single underscores allowed between digits; afterDigit tells
\* that the character before s was a digit
RECURSIVE DigitRunSyntax(_, _)
DigitRunSyntax(s, afterDigit) ==
    IF s = <<>> THEN afterDigit
    ELSE IF Head(s) \in Digits THEN DigitRunSyntax(Tail(s), TRUE)
    ELSE IF Head(s) = "_" THEN afterDigit /\ DigitRunSyntax(Tail(s), FALSE)
    ELSE FALSE

\* the number of digits of s, leading zeros counted and underscores not
DigitCount(s) == Cardinality({i \in 1..Len(s) : s[i] \in Digits})

\* the body of an int literal after the sign: a digit run of at most
\* default_max_str_digits digits
IsDigitRun(s, afterDigit) ==
    /\ DigitCount(s) <= default_max_str_digits
    /\ DigitRunSyntax(s, afterDigit)

RECURSIVE DigitRunVal(_, _)
DigitRunVal(s, acc) ==
    IF s = <<>> THEN acc
    ELSE IF Head(s) = "_" THEN DigitRunVal(Tail(s), acc)
    ELSE DigitRunVal(Tail(s), 10 * acc + DigitVal(Head(s)))

\* int(s) of a str: surrounding whitespace is ignored, then an optional sign
\* and a digit run of at most default_max_str_digits digits; anything else
\* raises ValueError
IntBody(s) ==
    LET t == strip(s, Whitespace)
    IN  IF t # <<>> /\ Head(t) \in {"+", "-"} THEN Tail(t) ELSE t

IntOk(s) == IsDigitRun(IntBody(s), FALSE)

int(s) ==
    LET t == strip(s, Whitespace)
        v == DigitRunVal(IntBody(s), 0)
    IN  IF t # <<>> /\ Head(t) = "-" THEN 0 - v ELSE v

(***************************************************************************)
(* list and dict helpers                                                   *)
(***************************************************************************)
\* lst[i], i counted from 0 as Python does
At(lst, i) == lst[i + 1]

\* x in lst
InList(x, lst) == \E i \in 1..Len(lst) : lst[i] = x

\* the dict d after d[k] = v
DictSet(d, k, v) == [x \in (DOMAIN d) \cup {k} |-> IF x = k THEN v ELSE d[x]]

\* {}
EmptyDict == <<>>

(***************************************************************************)
(* class Election                                                          *)
(***************************************************************************)
\* Election.__init__(d)
Election(d) ==
    [_d |-> d, _ridings |-> <<>>, _parties |-> <<>>, _results |-> EmptyDict]

\* update_results with one of its steps changed: the guard on votes, the
\* registration of the riding or of the party, or the addition to the count
\* already recorded
update_results_changed(self, riding, party, votes, guard, addRiding,
                       addParty, addHolder) ==
    IF guard
    THEN LET ridings1 == IF addRiding /\ ~InList(riding, self._ridings)
                         THEN Append(self._ridings, riding)
                         ELSE self._ridings
             parties1 == IF addParty /\ ~InList(party, self._parties)
                         THEN Append(self._parties, party)
                         ELSE self._parties
             results1 == IF riding \notin DOMAIN self._results
                         THEN DictSet(self._results, riding, EmptyDict)
                         ELSE self._results
             holder == IF party \in DOMAIN results1[riding] /\ addHolder
                       THEN results1[riding][party]
                       ELSE 0
         IN  [self EXCEPT !._ridings = ridings1,
                          !._parties = parties1,
                          !._results = DictSet(results1, riding,
                                           DictSet(results1[riding], party,
                                                   votes + holder))]
    ELSE self

\* the count is overwritten with the latest votes
update_results_overwriting(self, riding, party, votes) ==
    update_results_changed(self, riding, party, votes, votes > 0, TRUE, TRUE,
                           FALSE)

\* votes = 0 passes the guard
update_results_zero(self, riding, party, votes) ==
    update_results_changed(self, riding, party, votes, votes >= 0, TRUE, TRUE,
                           TRUE)

\* no guard on votes
update_results_unguarded(self, riding, party, votes) ==
    update_results_changed(self, riding, party, votes, TRUE, TRUE, TRUE, TRUE)

\* the riding is registered only together with a new party
update_results_riding(self, riding, party, votes) ==
    update_results_changed(self, riding, party, votes, votes > 0,
                           ~InList(party, self._parties), TRUE, TRUE)

\* the party is registered only together with a new riding
update_results_party(self, riding, party, votes) ==
    update_results_changed(self, riding, party, votes, votes > 0, TRUE,
                           ~InList(riding, self._ridings), TRUE)

\* Election.update_results(self, riding, party, votes): the Election after
\* the call
update_results(self, riding, party, votes) ==
    IF votes > 0
    THEN LET ridings1 == IF ~InList(riding, self._ridings)
                         THEN Append(self._ridings, riding)
                         ELSE self._ridings
             parties1 == IF ~InList(party, self._parties)
                         THEN Append(self._parties, party)
                         ELSE self._parties
             results1 == IF riding \notin DOMAIN self._results
                         THEN DictSet(self._results, riding, EmptyDict)
                         ELSE self._results
             results2 == IF riding \in DOMAIN results1
                            /\ party \in DOMAIN results1[riding]
                         THEN LET holder == results1[riding][party]
                              IN  DictSet(results1, riding,
                                      DictSet(results1[riding], party,
                                              votes + holder))
                         ELSE results1
             results3 == IF riding \in DOMAIN results2
                            /\ party \notin DOMAIN results2[riding]
                         THEN DictSet(results2, riding,
                                  DictSet(results2[riding], party, votes))
                         ELSE results2
         IN  [self EXCEPT !._ridings = ridings1,
                          !._parties = parties1,
                          !._results = results3]
    ELSE self

\* Election.results_for(self, riding, party): 0 when nothing is recorded
results_for(self, riding, party) ==
    IF riding \in DOMAIN self._results
       /\ party \in DOMAIN self._results[riding]
    THEN self._results[riding][party]
    ELSE 0

\* the largest count among the first n parties of lst recorded in row
RECURSIVE MaxVotes(_, _, _)
MaxVotes(row, lst, n) ==
    IF n = 0 THEN 0
    ELSE LET rest == MaxVotes(row, lst, n - 1)
             p == lst[n]
         IN  IF p \in DOMAIN row /\ row[p] > rest THEN row[p] ELSE rest

\* Election.riding_winners(self, riding): the parties, in the order of
\* _parties, whose count in riding is the largest one recorded there
RECURSIVE WinnersFrom(_, _, _, _)
WinnersFrom(row, lst, i, most) ==
    IF i > Len(lst) THEN <<>>
    ELSE LET p == lst[i]
             rest == WinnersFrom(row, lst, i + 1, most)
         IN  IF p \in DOMAIN row /\ row[p] = most THEN <<p>> \o rest ELSE rest

\* only the first leader is returned
riding_winners_first(self, riding) ==
    IF riding \notin DOMAIN self._results THEN <<>>
    ELSE LET row == self._results[riding]
             all == WinnersFrom(row, self._parties, 1,
                                MaxVotes(row, self._parties,
                                         Len(self._parties)))
         IN  IF all = <<>> THEN <<>> ELSE <<Head(all)>>

riding_winners(self, riding) ==
    IF riding \notin DOMAIN self._results THEN <<>>
    ELSE LET row == self._results[riding]
         IN  WinnersFrom(row, self._parties, 1,
                         MaxVotes(row, self._parties, Len(self._parties)))

\* Election.party_seats(self): every known party starts at 0 seats and gets
\* one seat for each riding it is a winner of
RECURSIVE CreditWinners(_, _, _)
CreditWinners(seats, winners, i) ==
    IF i > Len(winners) THEN seats
    ELSE CreditWinners(DictSet(seats, winners[i],
                               (IF winners[i] \in DOMAIN seats
                                THEN seats[winners[i]] ELSE 0) + 1),
                       winners, i + 1)

RECURSIVE SeatsFrom(_, _, _)
SeatsFrom(self, seats, i) ==
    IF i > Len(self._ridings) THEN seats
    ELSE SeatsFrom(self,
                   CreditWinners(seats,
                                 riding_winners(self, self._ridings[i]), 1),
                   i + 1)

RECURSIVE ZeroSeats(_, _)
ZeroSeats(lst, n) ==
    IF n = 0 THEN EmptyDict ELSE DictSet(ZeroSeats(lst, n - 1), lst[n], 0)

\* parties without a seat are left out
party_seats_winners(self) == SeatsFrom(self, EmptyDict, 1)

party_seats(self) ==
    SeatsFrom(self, ZeroSeats(self._parties, Len(self._parties)), 1)

(***************************************************************************)
(* class Jurisdiction                                                      *)
(***************************************************************************)
\* the days of a month of the calendar date() uses
DaysInMonth(year, month) ==
    IF month = 2
    THEN (IF year % 4 = 0 /\ (year % 100 # 0 \/ year % 400 = 0)
          THEN 29 ELSE 28)
    ELSE IF month \in {4, 6, 9, 11} THEN 30 ELSE 31

\* the range of a C int, which date() converts its arguments to
INT_MIN == 0 - 2147483647 - 1
INT_MAX == 2147483647

\* year, month and day fit a C int; otherwise date() raises OverflowError
DateFits(year, month, day) ==
    \A x \in {year, month, day} : x >= INT_MIN /\ x <= INT_MAX

\* date(year, month, day) is a date; otherwise it raises ValueError
DateOk(year, month, day) ==
    /\ year \in 1..9999
    /\ month \in 1..12
    /\ day >= 1 /\ day <= DaysInMonth(year, month)

\* date(year, month, day)
date(year, month, day) == <<year, month, day>>

\* input_stream.readline() when pos lines were read before: the next line,
\* or '' at end of input
readline(input, pos) == IF pos < Len(input) THEN input[pos + 1] ELSE <<>>

\* the position of input_stream after that readline()
advance(input, pos) == IF pos < Len(input) THEN pos + 1 ELSE pos

\* what a call leaves behind: the elections, the exception it raised
\* ("none" when it returned) and the number of lines it consumed
Outcome(elections, exc, pos) ==
    [elections |-> elections, exc |-> exc, pos |-> pos]

\* the loop with a malformed line skipped instead of raising
RECURSIVE readLoop_skipping(_, _, _, _)
readLoop_skipping(elections, dt, input, pos) ==
    LET line == readline(input, pos)
        next == advance(input, pos)
        line_lst == split(line, ",")
    IN  IF line = <<>> THEN Outcome(elections, "none", next)
        ELSE IF Len(line_lst) <= 17
                \/ ~IntOk(strip(At(line_lst, 17), {NL}))
        THEN readLoop_skipping(elections, dt, input, next)
        ELSE IF ~DateFits(dt[1], dt[2], dt[3])
        THEN Outcome(elections, "OverflowError", next)
        ELSE IF ~DateOk(dt[1], dt[2], dt[3])
        THEN Outcome(elections, "ValueError", next)
        ELSE IF dt \notin DOMAIN elections
        THEN Outcome(elections, "KeyError", next)
        ELSE readLoop_skipping(
                 DictSet(elections, dt,
                     update_results(elections[dt],
                                    strip(At(line_lst, 1), {QUOTE}),
                                    strip(At(line_lst, 13), {QUOTE}),
                                    int(strip(At(line_lst, 17), {NL})))),
                 dt, input, next)

\* the while loop of read_results, lines 147-157, entered after pos lines
\* of input have been read; ymd holds the arguments year, month and day
RECURSIVE readLoop(_, _, _, _)
readLoop(elections, ymd, input, pos) ==
    LET line == readline(input, pos)
        next == advance(input, pos)
        line_lst == split(line, ",")
    IN  IF line = <<>> THEN Outcome(elections, "none", next)
        ELSE IF Len(line_lst) <= 1 \/ Len(line_lst) <= 13
                \/ Len(line_lst) <= 17
        THEN Outcome(elections, "IndexError", next)
        ELSE LET desired_lst == <<At(line_lst, 1), At(line_lst, 13),
                                  At(line_lst, 17)>>
                 riding == strip(At(desired_lst, 0), {QUOTE})
                 party == strip(At(desired_lst, 1), {QUOTE})
                 number == strip(At(desired_lst, 2), {NL})
             IN  IF ~IntOk(number) THEN Outcome(elections, "ValueError", next)
                 ELSE IF ~DateFits(ymd[1], ymd[2], ymd[3])
                 THEN Outcome(elections, "OverflowError", next)
                 ELSE IF ~DateOk(ymd[1], ymd[2], ymd[3])
                 THEN Outcome(elections, "ValueError", next)
                 ELSE LET dt == date(ymd[1], ymd[2], ymd[3])
                      IN  IF dt \notin DOMAIN elections
                          THEN Outcome(elections, "KeyError", next)
                          ELSE readLoop(
                                   DictSet(elections, dt,
                                       update_results(elections[dt], riding,
                                                      party, int(number))),
                                   ymd, input, next)

\* read_results without the readline() that skips the header
read_results_header(elections, year, month, day, input_stream) ==
    readLoop(elections, <<year, month, day>>, input_stream, 0)

\* read_results creating the Election of a date that has none
read_results_creating(elections, year, month, day, input_stream) ==
    LET dt == <<year, month, day>>
    IN  readLoop(IF dt \in DOMAIN elections THEN elections
                 ELSE DictSet(elections, dt, Election(dt)),
                 dt, input_stream, advance(input_stream, 0))

\* Jurisdiction.read_results(self, year, month, day, input_stream): the
\* first readline() skips the header, then the loop runs
read_results(elections, year, month, day, input_stream) ==
    readLoop(elections, <<year, month, day>>, input_stream,
             advance(input_stream, 0))

(***************************************************************************)
(* The csv files: a header line, then one line per record, the riding name *)
(* in column RIDING, the party name in column PARTY and the vote count in  *)
(* column VOTES.  A file is described by the records it was written from   *)
(* and rendered to the text read_results reads.                            *)
(***************************************************************************)
DigitChar(n) == At(<<"0", "1", "2", "3", "4", "5", "6", "7", "8", "9">>, n)

RECURSIVE DigitsOf(_)
DigitsOf(n) ==
    IF n < 10 THEN <<DigitChar(n)>>
    ELSE Append(DigitsOf(n \div 10), DigitChar(n % 10))

\* str(n) of an int
str(n) == IF n < 0 THEN <<"-">> \o DigitsOf(0 - n) ELSE DigitsOf(n)

\* sep.join(fields)
RECURSIVE join(_, _)
join(fields, sep) ==
    IF fields = <<>> THEN <<>>
    ELSE IF Len(fields) = 1 THEN fields[1]
    ELSE fields[1] \o <<sep>> \o join(Tail(fields), sep)

R1 == <<"r", "1">>
R2 == <<"r", "2">>
NDP == <<"n", "d", "p">>
LIB == <<"l", "i", "b">>
Ridings == {R1, R2}
Parties == {NDP, LIB}
\* the dates calls are made for, and those an Election is registered for
Dates == {<<2000, 2, 8>>, <<2015, 2, 3>>}
RegDates == {<<2015, 2, 3>>}

Quoted(name, quoted) == IF quoted THEN <<QUOTE>> \o name \o <<QUOTE>> ELSE name

\* a record line: votes for party in riding; the names are quoted or not,
\* and columns may follow the votes column
Rec(riding, party, votes, quoted, extra) ==
    [kind |-> "rec", riding |-> riding, party |-> party, votes |-> votes,
     quoted |-> quoted, extra |-> extra]
\* a line that ends before the votes column
Short == [kind |-> "short", riding |-> R1, party |-> NDP, votes |-> 0,
          quoted |-> TRUE, extra |-> FALSE]
\* a line whose votes column is not a number
NotANumber == [kind |-> "nan", riding |-> R1, party |-> NDP, votes |-> 0,
               quoted |-> TRUE, extra |-> FALSE]
\* the line of column titles
Header == [kind |-> "header", riding |-> <<"R">>, party |-> <<"P">>,
           votes |-> 0, quoted |-> FALSE, extra |-> TRUE]

Columns(l) ==
    [i \in 0..(IF l.kind = "short" THEN PARTY
               ELSE IF l.extra THEN VOTES + 1 ELSE VOTES) |->
        IF i = RIDING THEN Quoted(l.riding, l.quoted)
        ELSE IF i = PARTY THEN Quoted(l.party, l.quoted)
        ELSE IF i = VOTES
        THEN (IF l.kind = "rec" THEN str(l.votes) ELSE <<"V">>)
        ELSE <<>>]

\* the text of a line, with its newline
RenderLine(l) ==
    LET cols == Columns(l)
    IN  join([i \in 1..Cardinality(DOMAIN cols) |-> cols[i - 1]], ",")
            \o <<NL>>

\* the lines readline() returns for a file
Render(file) == [i \in 1..Len(file) |-> RenderLine(file[i])]

DataLines ==
    {Rec(R1, NDP, 1, TRUE, FALSE), Rec(R2, LIB, 0 - 12, FALSE, TRUE),
     Short, NotANumber}

RECURSIVE SeqsUpTo(_, _)
SeqsUpTo(S, n) ==
    IF n = 0 THEN {<<>>}
    ELSE LET shorter == SeqsUpTo(S, n - 1)
         IN  shorter \cup {Append(q, x) : q \in shorter, x \in S}

\* the empty file, and a header followed by at most MaxLines lines
Files == {<<>>} \cup {<<Header>> \o body : body \in SeqsUpTo(DataLines, MaxLines)}

(***************************************************************************)
(* State                                                                   *)
(***************************************************************************)
VARIABLES
    _elections,   \* Jurisdiction._elections: date -> Election
    call,         \* the last call made and how it ended
    sum,          \* date -> (riding, party) -> the positive votes passed
                  \*   to update_results calls on that date's Election
    direct,       \* date -> only update_results calls were made on it
    imp           \* the imports of one file made in a row on one date

vars == <<_elections, call, sum, direct, imp>>

NoDate == <<0, 0, 0>>

Call(op, dt, riding, party, votes, file, exc, pos) ==
    [op |-> op, date |-> dt, riding |-> riding, party |-> party,
     votes |-> votes, file |-> file, exc |-> exc, pos |-> pos]

NoImport ==
    [n |-> 0, date |-> NoDate, file |-> <<>>, base |-> Election(NoDate),
     first |-> Election(NoDate)]

\* the votes recorded in all elections together
RECURSIVE SumOver(_, _)
SumOver(S, f) ==
    IF S = {} THEN 0
    ELSE LET x == CHOOSE y \in S : TRUE
         IN  f[x] + SumOver(S \ {x}, f)

RowTotal(row) == SumOver(DOMAIN row, row)
ElectionTotal(e) ==
    SumOver(DOMAIN e._results, [r \in DOMAIN e._results |-> RowTotal(e._results[r])])
Total(elections) ==
    SumOver(DOMAIN elections, [dt \in DOMAIN elections |-> ElectionTotal(elections[dt])])

\* the recorded votes are within the bound of the model
Capped(elections) == Total(elections) <= MaxTotal

\* Jurisdiction.__init__: no elections
Init ==
    /\ _elections = EmptyDict
    /\ call = Call("init", NoDate, <<>>, <<>>, 0, <<>>, "none", 0)
    /\ sum = EmptyDict
    /\ direct = EmptyDict
    /\ imp = NoImport

\* an Election for dt is created and stored in the history
register_election(dt) ==
    /\ dt \notin DOMAIN _elections
    /\ _elections' = DictSet(_elections, dt, Election(dt))
    /\ call' = Call("register_election", dt, <<>>, <<>>, 0, <<>>, "none", 0)
    /\ sum' = DictSet(sum, dt, [c \in Ridings \X Parties |-> 0])
    /\ direct' = DictSet(direct, dt, TRUE)
    /\ imp' = NoImport

\* a call of update_results on the Election of dt
UpdateResults(dt, riding, party, votes) ==
    /\ dt \in DOMAIN _elections
    /\ LET after == update_results(_elections[dt], riding, party, votes)
       IN  /\ Capped(DictSet(_elections, dt, after))
           /\ _elections' = DictSet(_elections, dt, after)
    /\ call' = Call("update_results", dt, riding, party, votes, <<>>,
                    "none", 0)
    /\ sum' = IF votes > 0
              THEN DictSet(sum, dt,
                       DictSet(sum[dt], <<riding, party>>,
                               sum[dt][<<riding, party>>] + votes))
              ELSE sum
    /\ UNCHANGED direct
    /\ imp' = NoImport

\* a call of read_results for dt on the text of file
ReadResults(dt, file) ==
    \E out \in {read_results(_elections, dt[1], dt[2], dt[3], Render(file))} :
        /\ Capped(out.elections)
        /\ _elections' = out.elections
        /\ call' = Call("read_results", dt, <<>>, <<>>, 0, file, out.exc,
                        out.pos)
        /\ UNCHANGED sum
        /\ direct' = IF dt \in DOMAIN direct THEN DictSet(direct, dt, FALSE)
                     ELSE direct
        /\ imp' = IF out.exc # "none" \/ dt \notin DOMAIN _elections
                  THEN NoImport
                  ELSE IF imp.n = 1 /\ imp.date = dt /\ imp.file = file
                  THEN [imp EXCEPT !.n = 2]
                  ELSE [n |-> 1, date |-> dt, file |-> file,
                        base |-> _elections[dt], first |-> out.elections[dt]]

\* Elections are registered and updated by update_results calls
NextE ==
    \/ \E dt \in RegDates : register_election(dt)
    \/ \E dt \in Dates, riding \in Ridings, party \in Parties,
          votes \in (0 - 1)..MaxVote :
            UpdateResults(dt, riding, party, votes)

SpecE == Init /\ [][NextE]_vars

\* Elections are registered and updated by read_results calls
NextJ ==
    \/ \E dt \in RegDates : register_election(dt)
    \/ \E dt \in Dates, file \in Files : ReadResults(dt, file)

SpecJ == Init /\ [][NextJ]_vars

(***************************************************************************)
(* Properties                                                              *)
(***************************************************************************)
Cells == Ridings \X Parties

\* the names a list holds
Elems(lst) == {lst[i] : i \in 1..Len(lst)}

\* the last call was update_results on a registered Election
Updated == call.op = "update_results" /\ call.date \in DOMAIN _elections

\* C1: the count recorded for (riding, party) in an Election that only
\* update_results calls have touched is the sum of the positive votes those
\* calls passed for that pair: every call adds to the running total
AccumulatesVotes ==
    \A dt \in DOMAIN _elections :
        direct[dt] =>
            \A c \in Cells :
                results_for(_elections[dt], c[1], c[2]) = sum[dt][c]

\* a call added votes to a pair that already had some, while another pair
\* of the same Election has votes too
AccumulatesVotesWitness ==
    /\ Updated
    /\ call.votes > 0
    /\ results_for(_elections[call.date], call.riding, call.party)
          > call.votes
    /\ \E c \in Cells :
          /\ c # <<call.riding, call.party>>
          /\ results_for(_elections[call.date], c[1], c[2]) > 0

\* C2: a step that is an update_results call with votes <= 0 raises nothing
\* and changes no Election: no count, no riding, no party, no result row
NonPositiveIgnored ==
    [][(call'.op = "update_results" /\ call'.votes <= 0)
          => (call'.exc = "none" /\ _elections' = _elections)]_vars

\* a call with votes <= 0 was made for a riding and a party the Election,
\* which has votes recorded, does not know
NonPositiveIgnoredWitness ==
    /\ Updated
    /\ call.votes <= 0
    /\ _elections[call.date]._results # EmptyDict
    /\ ~InList(call.riding, _elections[call.date]._ridings)
    /\ ~InList(call.party, _elections[call.date]._parties)

\* C3: a riding is in _ridings iff it is a key of _results
RidingsMatchResults ==
    \A dt \in DOMAIN _elections :
        LET e == _elections[dt]
        IN  \A s \in Ridings \cup Elems(e._ridings) \cup DOMAIN e._results :
                InList(s, e._ridings) <=> s \in DOMAIN e._results

\* two ridings are recorded and the last call, with votes <= 0, was for one
\* of them
RidingsMatchResultsWitness ==
    /\ Updated
    /\ call.votes <= 0
    /\ Len(_elections[call.date]._ridings) = 2
    /\ call.riding \in DOMAIN _elections[call.date]._results

\* C4: a party is in _parties iff it is a key of the row of some riding
PartiesMatchResults ==
    \A dt \in DOMAIN _elections :
        LET e == _elections[dt]
            inner == UNION {DOMAIN e._results[r] : r \in DOMAIN e._results}
        IN  \A s \in Parties \cup Elems(e._parties) \cup inner :
                InList(s, e._parties) <=> s \in inner

\* two parties are recorded, one of them in one riding only, and the last
\* call had votes <= 0
PartiesMatchResultsWitness ==
    /\ Updated
    /\ call.votes <= 0
    /\ Len(_elections[call.date]._parties) = 2
    /\ \E r \in DOMAIN _elections[call.date]._results :
          Cardinality(DOMAIN _elections[call.date]._results[r]) = 1

\* every stored count is a positive integer
AllPositive ==
    \A dt \in DOMAIN _elections :
        \A r \in DOMAIN _elections[dt]._results :
            \A p \in DOMAIN _elections[dt]._results[r] :
                /\ _elections[dt]._results[r][p] \in Int
                /\ _elections[dt]._results[r][p] > 0

\* a step removes no Election, riding, party or result entry and lowers no
\* count
NeverLess ==
    \A dt \in DOMAIN _elections :
        /\ dt \in DOMAIN _elections'
        /\ Elems(_elections[dt]._ridings) \subseteq Elems(_elections'[dt]._ridings)
        /\ Elems(_elections[dt]._parties) \subseteq Elems(_elections'[dt]._parties)
        /\ \A r \in DOMAIN _elections[dt]._results :
              /\ r \in DOMAIN _elections'[dt]._results
              /\ \A p \in DOMAIN _elections[dt]._results[r] :
                    /\ p \in DOMAIN _elections'[dt]._results[r]
                    /\ _elections'[dt]._results[r][p]
                          >= _elections[dt]._results[r][p]

\* C5: every stored count is strictly positive, and no update_results call
\* lowers a count or removes a riding, a party or a result entry
CountsPositiveAndGrowing == []AllPositive /\ [][NeverLess]_vars

\* a call with negative votes was made for a pair that has votes recorded
CountsPositiveAndGrowingWitness ==
    /\ Updated
    /\ call.votes < 0
    /\ results_for(_elections[call.date], call.riding, call.party) > 0

\* the parties whose count in riding is not below any count recorded there
Leaders(e, riding) ==
    IF riding \notin DOMAIN e._results THEN {}
    ELSE {p \in DOMAIN e._results[riding] :
            \A q \in DOMAIN e._results[riding] :
                e._results[riding][q] <= e._results[riding][p]}

\* C6: riding_winners(riding) lists exactly the parties that hold the largest
\* count recorded in the riding, each once, and nothing for a riding without
\* recorded votes
WinnersAreLeaders ==
    \A dt \in DOMAIN _elections :
        \A r \in Ridings :
            LET w == riding_winners(_elections[dt], r)
            IN  /\ Elems(w) = Leaders(_elections[dt], r)
                /\ Len(w) = Cardinality(Elems(w))
                /\ (r \notin DOMAIN _elections[dt]._results => w = <<>>)

\* one riding has two tied leaders, another has a leader and a party behind
\* it
WinnersAreLeadersWitness ==
    \E dt \in DOMAIN _elections :
        \E r1 \in Ridings, r2 \in Ridings :
            /\ Len(riding_winners(_elections[dt], r1)) = 2
            /\ r2 \in DOMAIN _elections[dt]._results
            /\ Len(riding_winners(_elections[dt], r2)) = 1
            /\ Cardinality(DOMAIN _elections[dt]._results[r2]) = 2

\* C7: party_seats() has exactly the known parties as keys, and gives each
\* the number of ridings it is a winner of: tied leaders all get the seat,
\* a party that leads nowhere has 0
SeatsCountWins ==
    \A dt \in DOMAIN _elections :
        LET e == _elections[dt]
            seats == party_seats(e)
        IN  /\ DOMAIN seats = Elems(e._parties)
            /\ \A p \in DOMAIN seats :
                  seats[p] = Cardinality({r \in DOMAIN e._results :
                                             p \in Leaders(e, r)})

\* a party has two seats, one of them shared with a party tied with it
SeatsCountWinsWitness ==
    \E dt \in DOMAIN _elections :
        LET seats == party_seats(_elections[dt])
        IN  \E p \in DOMAIN seats, q \in DOMAIN seats :
                seats[p] = 2 /\ seats[q] = 1

\* the last call was read_results
Imported == call.op = "read_results"

\* a file in the format: a header, then record lines only
WellFormed(file) ==
    Len(file) >= 1 /\ \A i \in 2..Len(file) : file[i].kind = "rec"

\* the votes the first n lines of file give party in riding: the header
\* gives none, a record gives its votes when they are positive
RECURSIVE Tally(_, _, _, _)
Tally(file, n, riding, party) ==
    IF n <= 1 THEN 0
    ELSE Tally(file, n - 1, riding, party)
         + (IF /\ file[n].kind = "rec"
               /\ file[n].riding = riding
               /\ file[n].party = party
               /\ file[n].votes > 0
            THEN file[n].votes ELSE 0)

\* the data lines of file that are malformed, as line numbers of the file
Malformed(file) == {i \in 2..Len(file) : file[i].kind \in {"short", "nan"}}

\* the error a malformed line raises
ParseError(l) == IF l.kind = "short" THEN "IndexError" ELSE "ValueError"

\* C8 as amended: read_results of a well-formed file for a registered date
\* reads to the end of input without error and adds to every count the
\* votes of every line after the header; importing the same file again adds
\* the same amounts again, which leaves every count at twice its value
\* after the first import when the Election was empty before it
ImportAccumulates ==
    /\ (Imported /\ WellFormed(call.file) /\ call.date \in DOMAIN _elections)
          => (call.exc = "none" /\ call.pos = Len(call.file))
    /\ (imp.n >= 1 /\ WellFormed(imp.file)) =>
          \A c \in Cells :
              /\ results_for(imp.first, c[1], c[2])
                    = results_for(imp.base, c[1], c[2])
                      + Tally(imp.file, Len(imp.file), c[1], c[2])
              /\ imp.n = 2 =>
                    results_for(_elections[imp.date], c[1], c[2])
                       = results_for(imp.first, c[1], c[2])
                         + Tally(imp.file, Len(imp.file), c[1], c[2])
              /\ (imp.n = 2 /\ imp.base._results = EmptyDict) =>
                    results_for(_elections[imp.date], c[1], c[2])
                       = 2 * results_for(imp.first, c[1], c[2])

\* a file with a positive and a negative record was imported twice in a row
\* into an Election that was empty before
ImportAccumulatesWitness ==
    /\ imp.n = 2
    /\ Len(imp.file) = 3
    /\ \E i \in 2..3 : imp.file[i].votes > 0
    /\ \E i \in 2..3 : imp.file[i].votes < 0
    /\ imp.base._results = EmptyDict
    /\ \E c \in Cells : results_for(_elections[imp.date], c[1], c[2]) = 2

\* C8 as claimed: after the second import of a well-formed file every count
\* is twice its value after the first import, whatever the Election held
\* before
ImportDoubles ==
    (imp.n = 2 /\ WellFormed(imp.file)) =>
        \A c \in Cells :
            results_for(_elections[imp.date], c[1], c[2])
               = 2 * results_for(imp.first, c[1], c[2])

\* what read_results does with a file when its date has no Election: with
\* no data line it returns, with a malformed first data line it raises the
\* parsing error, otherwise it raises KeyError
UnregisteredOutcome(file) ==
    IF Len(file) <= 1 THEN "none"
    ELSE IF 2 \in Malformed(file) THEN ParseError(file[2])
    ELSE "KeyError"

\* C9 as amended: read_results for a date without an Election modifies no
\* Election; it raises at the first data line, KeyError when that line is
\* well formed and the parsing error when it is not, and returns without
\* error when the file has no data line
MissingDateFailsAtFirstRecord ==
    [][(call'.op = "read_results" /\ call'.date \notin DOMAIN _elections)
          => /\ _elections' = _elections
             /\ call'.exc = UnregisteredOutcome(call'.file)
             /\ call'.pos = (IF Len(call'.file) <= 1 THEN Len(call'.file)
                             ELSE 2)]_vars

\* KeyError was raised for a date without an Election while the Election of
\* another date has votes
MissingDateFailsAtFirstRecordWitness ==
    /\ Imported
    /\ call.date \notin DOMAIN _elections
    /\ call.exc = "KeyError"
    /\ \E dt \in DOMAIN _elections : _elections[dt]._results # EmptyDict

\* C9 as claimed: read_results for a date without an Election raises a
\* lookup error for every input, and modifies no Election
MissingDateAlwaysFails ==
    [][(call'.op = "read_results" /\ call'.date \notin DOMAIN _elections)
          => /\ _elections' = _elections
             /\ call'.exc \in {"KeyError", "IndexError"}]_vars

\* C10: when the first malformed data line of the file is its k-th one,
\* read_results for a registered date raises the parsing error of that line
\* on reading it, the Election has gained exactly the votes of the data
\* lines 1..k-1, and nothing else has changed
MalformedLineFatal ==
    [][(/\ call'.op = "read_results"
        /\ call'.date \in DOMAIN _elections
        /\ Malformed(call'.file) # {})
          => LET file == call'.file
                 bad == CHOOSE i \in Malformed(file) :
                            \A j \in Malformed(file) : i <= j
                 dt == call'.date
             IN  /\ call'.exc = ParseError(file[bad])
                 /\ call'.pos = bad
                 /\ DOMAIN _elections' = DOMAIN _elections
                 /\ \A other \in DOMAIN _elections \ {dt} :
                       _elections'[other] = _elections[other]
                 /\ \A c \in Cells :
                       results_for(_elections'[dt], c[1], c[2])
                          = results_for(_elections[dt], c[1], c[2])
                            + Tally(file, bad - 1, c[1], c[2])
                 /\ ElectionTotal(_elections'[dt])
                       = ElectionTotal(_elections[dt])
                         + SumOver(Cells,
                               [c \in Cells |->
                                   Tally(file, bad - 1, c[1], c[2])])]_vars

\* the second data line was malformed and the first one, which gives votes,
\* was applied to an Election that had votes already
MalformedLineFatalWitness ==
    /\ Imported
    /\ call.date \in DOMAIN _elections
    /\ call.exc \in {"IndexError", "ValueError"}
    /\ call.pos = 3
    /\ call.file[2].kind = "rec" /\ call.file[2].votes > 0
    /\ results_for(_elections[call.date], call.file[2].riding,
                   call.file[2].party) >= 2

====
